---- MODULE Spec2Model ----
(***************************************************************************)
(* The Todo Store Service (src/main.py, FastAPI handlers over the          *)
(* module-level list todos_db and the counter next_id) and the two tool    *)
(* adapters that forward to it (TodoMCPServer in src/main.py and the       *)
(* FastMCP tools of src/mcp_server.py).                                    *)
(*                                                                         *)
(* A JSON object (a request body, a tool's arguments) is a record          *)
(*   [vals |-> function from the keys that carry a non-null value to that  *)
(*             value,                                                      *)
(*    nulls |-> the set of keys that are present with the value null]      *)
(* so "absent", "null" and "a value" stay three different things.          *)
(* Timestamps are readings of datetime.now(), modelled as naturals; the    *)
(* variable clock is the last reading and successive readings never        *)
(* decrease.  A formatted string is the sequence of its pieces.            *)
(***************************************************************************)
EXTENDS Integers, Sequences, FiniteSets, TLC

VARIABLES todos_db,   \* main.py:42, the live collection, a sequence of Todo
          next_id,    \* main.py:43, the id counter
          clock,      \* the last reading of datetime.now()
          resp,       \* the last request to the store and its response
          deleted,    \* history: ids whose delete succeeded
          created,    \* history: ids returned by the successful creates, in order
          n_updates,  \* history: number of successful updates
          store_up,   \* whether the store accepts connections on localhost:8001
          tool,       \* the tool invocation of the last step and its result, NoTool
                      \* when the last step was no tool invocation
          tasks,      \* the request tasks of the store's event loop, in order of arrival
          running     \* the task the event loop is executing, 0 when it is idle

vars == <<todos_db, next_id, clock, resp, deleted, created, n_updates, store_up, tool,
         tasks, running>>

store_vars == <<todos_db, next_id, clock, resp, deleted, created, n_updates>>

loop_vars == <<tasks, running>>

-----------------------------------------------------------------------------
(* Bounds of the exploration *)

MaxSeedClock == 1

MaxClock == 2

MaxCreates == 2

MaxUpdates == 2

MaxToolWrites == 2

-----------------------------------------------------------------------------
(* Values *)

\* Python None / JSON null in a text-valued field
Null == "<null>"

NoBody == [vals |-> <<>>, nulls |-> {}]

Keys(obj) == DOMAIN obj.vals \cup obj.nulls

\* dict.get(key, default)
DictGet(obj, key, default) ==
    IF key \in DOMAIN obj.vals THEN obj.vals[key]
    ELSE IF key \in obj.nulls THEN Null ELSE default

dummy_todos ==
    << [title |-> "Learn FastAPI", description |-> "Complete FastAPI tutorial", completed |-> FALSE],
       [title |-> "Build MCP Server", description |-> "Create MCP server for Gemini CLI", completed |-> FALSE],
       [title |-> "Test Integration", description |-> "Test FastAPI with MCP server", completed |-> FALSE],
       [title |-> "Deploy Application", description |-> "Deploy to production", completed |-> TRUE],
       [title |-> "Write Documentation", description |-> "Create API documentation", completed |-> FALSE] >>

Todo(id, title, description, completed, created_at, updated_at) ==
    [id |-> id, title |-> title, description |-> description, completed |-> completed,
     created_at |-> created_at, updated_at |-> updated_at]

\* the readings datetime.now() can return after the reading c
Readings(c) == c..MaxClock

\* the index of the first item of db with this id, 0 when there is none
\* (the scan "for i, todo in enumerate(todos_db): if todo.id == todo_id")
RECURSIVE FindFrom(_, _, _)
FindFrom(db, todo_id, i) ==
    IF i > Len(db) THEN 0
    ELSE IF db[i].id = todo_id THEN i
    ELSE FindFrom(db, todo_id, i + 1)

Find(db, todo_id) == FindFrom(db, todo_id, 1)

\* list.pop() without the index: the last item goes
PopLast(db, i) == [j \in 1..(Len(db) - 1) |-> db[j]]

\* list.pop(i)
Pop(db, i) == [j \in 1..(Len(db) - 1) |-> IF j < i THEN db[j] ELSE db[j + 1]]

-----------------------------------------------------------------------------
(* Module-level seeding, main.py:42-65 *)

\* the loop "for todo_data in dummy_todos", from todos_db = [] and next_id = 1;
\* ts are the readings of the 2 * 5 calls of datetime.now(), in program order
RECURSIVE SeedLoop(_, _, _, _)
SeedLoop(db, nid, k, ts) ==
    IF k > Len(dummy_todos) THEN [db |-> db, next_id |-> nid]
    ELSE SeedLoop(Append(db, Todo(nid, dummy_todos[k].title, dummy_todos[k].description,
                                  dummy_todos[k].completed, ts[2 * k - 1], ts[2 * k])),
                  nid + 1, k + 1, ts)

SeedReadings ==
    {ts \in [1..(2 * Len(dummy_todos)) -> 0..MaxSeedClock] :
        \A i \in 1..(2 * Len(dummy_todos) - 1) : ts[i] <= ts[i + 1]}

Seeded(ts) == SeedLoop(<<>>, 1, 1, ts)

NoResp == [op |-> "none", id |-> 0, body |-> NoBody, status |-> 0, result |-> <<>>]

\* no tool invocation: the last step was none
NoTool == [impl |-> "none", name |-> "none", args |-> NoBody, outcome |-> "none",
           text |-> <<>>, sent |-> FALSE, connected |-> FALSE, status |-> 0,
           upstream |-> ""]

Init ==
    \E ts \in SeedReadings :
        /\ todos_db = Seeded(ts).db
        /\ next_id = Seeded(ts).next_id
        /\ clock = ts[2 * Len(dummy_todos)]
        /\ resp = NoResp
        /\ deleted = {}
        /\ created = <<>>
        /\ n_updates = 0
        /\ store_up = TRUE
        /\ tool = NoTool
        /\ tasks = <<>>
        /\ running = 0

-----------------------------------------------------------------------------
(* The handlers of the Store Service, main.py:83-146.  Each is the function *)
(* from the store's state and the request to the state after it and the     *)
(* HTTP response [status, result].                                          *)

Out(db, nid, clk, status, result) ==
    [db |-> db, next_id |-> nid, clock |-> clk, status |-> status, result |-> result]

\* raise HTTPException(status_code=404, detail="Todo not found")
NotFoundDetail == "Todo not found"

\* the body of the 422 answer to a request that fails validation
ValidationDetail == "validation error"

\* sum(1 for todo in todos_db if not todo.completed)
RECURSIVE CountPending(_, _)
CountPending(db, i) ==
    IF i > Len(db) THEN 0
    ELSE (IF db[i].completed THEN 0 ELSE 1) + CountPending(db, i + 1)

\* sum(1 for todo in todos_db if todo.completed)
RECURSIVE CountCompleted(_, _)
CountCompleted(db, i) ==
    IF i > Len(db) THEN 0
    ELSE (IF db[i].completed THEN 1 ELSE 0) + CountCompleted(db, i + 1)

\* round(completed / total * 100, 2), in hundredths of a percent: the nearest
\* multiple of 0.01, a tie going to the even one.  (A tie needs 32 | total, so
\* none arises for the totals explored and the float error of the division
\* cannot move a result across a rounding boundary.)
Round2(completed, total) ==
    LET n == completed * 10000
        q == n \div total
        r == n % total
    IN  IF 2 * r < total THEN q
        ELSE IF 2 * r > total THEN q + 1
        ELSE IF q % 2 = 0 THEN q ELSE q + 1

\* GET /todos
get_todos(db, nid, clk) == Out(db, nid, clk, 200, db)

\* GET /todos/stats
get_todo_stats(db, nid, clk) ==
    LET total_todos == Len(db)
        completed_todos == CountCompleted(db, 1)
        pending_todos == total_todos - completed_todos
    IN  Out(db, nid, clk, 200,
            [total_todos |-> total_todos,
             completed_todos |-> completed_todos,
             pending_todos |-> pending_todos,
             completion_percentage |->
                 IF total_todos > 0 THEN Round2(completed_todos, total_todos) ELSE 0])

\* GET /todos/{todo_id}
get_todo(db, nid, clk, todo_id) ==
    LET i == Find(db, todo_id)
    IN  IF i = 0 THEN Out(db, nid, clk, 404, NotFoundDetail)
        ELSE Out(db, nid, clk, 200, db[i])

\* TodoCreate: title is a required str, description an Optional[str] = None,
\* completed a bool = False
ValidCreate(body) ==
    /\ "title" \in DOMAIN body.vals
    /\ "completed" \notin body.nulls
    /\ Keys(body) \subseteq {"title", "description", "completed"}

\* create_todo without "next_id += 1"
create_todo_no_increment(db, nid, clk, body, t1, t2) ==
    IF ~ValidCreate(body) THEN Out(db, nid, clk, 422, ValidationDetail)
    ELSE LET new_todo == Todo(nid, body.vals["title"], DictGet(body, "description", Null),
                              DictGet(body, "completed", FALSE), t1, t2)
         IN  Out(Append(db, new_todo), nid, t2, 200, new_todo)

\* create_todo with id=len(todos_db) + 1 in place of id=next_id
create_todo_len_id(db, nid, clk, body, t1, t2) ==
    IF ~ValidCreate(body) THEN Out(db, nid, clk, 422, ValidationDetail)
    ELSE LET new_todo == Todo(Len(db) + 1, body.vals["title"],
                              DictGet(body, "description", Null),
                              DictGet(body, "completed", FALSE), t1, t2)
         IN  Out(Append(db, new_todo), nid + 1, t2, 200, new_todo)

\* POST /todos; t1 and t2 are the readings of the two calls of datetime.now()
create_todo(db, nid, clk, body, t1, t2) ==
    IF ~ValidCreate(body) THEN Out(db, nid, clk, 422, ValidationDetail)
    ELSE LET new_todo == Todo(nid,
                              body.vals["title"],
                              DictGet(body, "description", Null),
                              DictGet(body, "completed", FALSE),
                              t1, t2)
         IN  Out(Append(db, new_todo), nid + 1, t2, 200, new_todo)

\* todo_update.dict(exclude_unset=True): the fields the request body carries
UpdateData(body) == Keys(body) \cap {"title", "description", "completed"}

\* the loop over todo_update.dict() without exclude_unset: a text field the
\* body omits is set to its default None
SetFieldsUnset(todo, body) ==
    [f \in DOMAIN todo |->
        IF f \in UpdateData(body) THEN DictGet(body, f, Null)
        ELSE IF f \in {"title", "description"} THEN Null ELSE todo[f]]

\* for field, value in update_data.items(): setattr(todo, field, value)
SetFields(todo, body) ==
    [f \in DOMAIN todo |->
        IF f \in UpdateData(body) THEN DictGet(body, f, Null) ELSE todo[f]]

\* update_todo with "todo.created_at = datetime.now()" in place of updated_at
update_todo_created_at(db, nid, clk, todo_id, body, t) ==
    LET i == Find(db, todo_id)
    IN  IF i = 0 THEN Out(db, nid, clk, 404, NotFoundDetail)
        ELSE LET todo == [SetFields(db[i], body) EXCEPT !.created_at = t]
             IN  Out([db EXCEPT ![i] = todo], nid, t, 200, todo)

\* update_todo with "todo.updated_at = datetime.now()" in the loop body, outside
\* the if: a scan that finds no item stamps every item it passed
update_todo_stamp_scanned(db, nid, clk, todo_id, body, t) ==
    LET i == Find(db, todo_id)
    IN  IF i = 0
        THEN Out([j \in DOMAIN db |-> [db[j] EXCEPT !.updated_at = t]], nid, t, 404,
                 NotFoundDetail)
        ELSE LET todo == [SetFields(db[i], body) EXCEPT !.updated_at = t]
             IN  Out([db EXCEPT ![i] = todo], nid, t, 200, todo)

\* PUT /todos/{todo_id}; t is the reading of datetime.now()
update_todo(db, nid, clk, todo_id, body, t) ==
    LET i == Find(db, todo_id)
    IN  IF i = 0 THEN Out(db, nid, clk, 404, NotFoundDetail)
        ELSE LET todo == [SetFields(db[i], body) EXCEPT !.updated_at = t]
             IN  Out([db EXCEPT ![i] = todo], nid, t, 200, todo)

\* f"Todo '{deleted_todo.title}' deleted successfully"
DeletedMessage(title) == <<"Todo '", title, "' deleted successfully">>

\* delete_todo with todos_db.pop() in place of todos_db.pop(i)
delete_todo_pop_last(db, nid, clk, todo_id) ==
    LET i == Find(db, todo_id)
    IN  IF i = 0 THEN Out(db, nid, clk, 404, NotFoundDetail)
        ELSE Out(PopLast(db, i), nid, clk, 200,
                 [message |-> DeletedMessage(db[Len(db)].title)])

\* DELETE /todos/{todo_id}
delete_todo(db, nid, clk, todo_id) ==
    LET i == Find(db, todo_id)
    IN  IF i = 0 THEN Out(db, nid, clk, 404, NotFoundDetail)
        ELSE Out(Pop(db, i), nid, clk, 200, [message |-> DeletedMessage(db[i].title)])

\* the answer of the store to one request, by route
Handle(db, nid, clk, op, id, body, t1, t2) ==
    CASE op = "list"   -> get_todos(db, nid, clk)
      [] op = "stats"  -> get_todo_stats(db, nid, clk)
      [] op = "get"    -> get_todo(db, nid, clk, id)
      [] op = "create" -> create_todo(db, nid, clk, body, t1, t2)
      [] op = "update" -> update_todo(db, nid, clk, id, body, t1)
      [] op = "delete" -> delete_todo(db, nid, clk, id)

\* whether the handler of a route reads datetime.now()
ReadsClock(op) == op \in {"create", "update"}

\* the store serves one request: its state moves to the handler's outcome and
\* the request and response are recorded
Serve(op, id, body, out) ==
    /\ todos_db' = out.db
    /\ next_id' = out.next_id
    /\ clock' = out.clock
    /\ resp' = [op |-> op, id |-> id, body |-> body, status |-> out.status,
                result |-> out.result]
    /\ deleted' = IF op = "delete" /\ out.status = 200 THEN deleted \cup {id} ELSE deleted
    /\ created' = IF op = "create" /\ out.status = 200
                  THEN Append(created, out.result.id) ELSE created
    /\ n_updates' = IF op = "update" /\ out.status = 200 THEN n_updates + 1 ELSE n_updates

\* the creates and updates explored are capped
WithinBudget(op) ==
    /\ op = "create" => Len(created) < MaxCreates
    /\ op = "update" => n_updates < MaxUpdates

\* one HTTP request of a client, served by the store
Request(op, id, body) ==
    /\ WithinBudget(op)
    /\ \E t1 \in (IF ReadsClock(op) THEN Readings(clock) ELSE {clock}) :
       \E t2 \in (IF op = "create" THEN Readings(t1) ELSE {t1}) :
           Serve(op, id, body, Handle(todos_db, next_id, clock, op, id, body, t1, t2))

-----------------------------------------------------------------------------
(* Requests explored *)

Obj(vals, nulls) == [vals |-> vals, nulls |-> nulls]

\* request bodies of POST /todos
CreateBodies ==
    { Obj([title |-> "X"], {}),
      Obj([title |-> "Y", description |-> "D", completed |-> TRUE], {}) }

\* request bodies of PUT /todos/{id}
UpdateBodies ==
    { Obj([completed |-> TRUE], {}),
      Obj(<<>>, {"description"}),
      Obj([title |-> "Z", description |-> "E"], {}) }

\* ids of the requests explored under Spec: a seeded item and the ids the
\* creates can issue (absent before their create and after their delete)
ReqIds == {1} \cup (Len(dummy_todos) + 1)..(Len(dummy_todos) + MaxCreates)

\* GET /todos
GetTodosReq ==
    /\ store_up
    /\ Request("list", 0, NoBody)
    /\ tool' = NoTool
    /\ UNCHANGED <<store_up, loop_vars>>

\* GET /todos/stats
GetTodoStatsReq ==
    /\ store_up
    /\ Request("stats", 0, NoBody)
    /\ tool' = NoTool
    /\ UNCHANGED <<store_up, loop_vars>>

\* GET /todos/{id}
GetTodoReq ==
    /\ store_up
    /\ \E id \in ReqIds : Request("get", id, NoBody)
    /\ tool' = NoTool
    /\ UNCHANGED <<store_up, loop_vars>>

\* POST /todos
CreateTodoReq ==
    /\ store_up
    /\ \E body \in CreateBodies : Request("create", 0, body)
    /\ tool' = NoTool
    /\ UNCHANGED <<store_up, loop_vars>>

\* PUT /todos/{id}
UpdateTodoReq ==
    /\ store_up
    /\ \E id \in ReqIds : \E body \in UpdateBodies : Request("update", id, body)
    /\ tool' = NoTool
    /\ UNCHANGED <<store_up, loop_vars>>

\* DELETE /todos/{id}
DeleteTodoReq ==
    /\ store_up
    /\ \E id \in ReqIds : Request("delete", id, NoBody)
    /\ tool' = NoTool
    /\ UNCHANGED <<store_up, loop_vars>>

Next ==
    \/ GetTodosReq
    \/ GetTodoStatsReq
    \/ GetTodoReq
    \/ CreateTodoReq
    \/ UpdateTodoReq
    \/ DeleteTodoReq

Spec == Init /\ [][Next]_vars

-----------------------------------------------------------------------------
(* The HTTP round trip of the adapters.  A tool's work up to its request is *)
(* a plan: the request to send, or the exception raised before any request, *)
(* or the answer for a name that is no tool.                                *)

\* FASTAPI_URL, and the literal of TodoMCPServer._make_request
FASTAPI_URL == "http://localhost:8001"

Send(op, id, body) == [kind |-> "send", op |-> op, id |-> id, body |-> body]

Raises(msg) == [kind |-> "raise", msg |-> msg]

Returns(text) == [kind |-> "return", text |-> text]

\* the path of a route, f"/todos/{todo_id}"
Endpoint(op, id) ==
    CASE op \in {"list", "create"} -> <<"/todos">>
      [] op = "stats" -> <<"/todos/stats">>
      [] OTHER -> <<"/todos/", ToString(id)>>

StatusText(status) == ToString(status)

ReasonPhrase(status) == IF status = 404 THEN "Not Found" ELSE "Unprocessable Entity"

\* response.text of a non-success answer: the JSON of {"detail": ...}
ErrorBodyText(status) ==
    IF status = 404 THEN "{\"detail\":\"Todo not found\"}"
    ELSE "{\"detail\":[validation errors]}"

\* what the HTTP client of an adapter gets for a request: no connection when
\* the store is down, otherwise the handler's outcome
Http(db, nid, clk, up, plan, t1, t2) ==
    IF ~up THEN [connected |-> FALSE]
    ELSE [connected |-> TRUE,
          out |-> Handle(db, nid, clk, plan.op, plan.id, plan.body, t1, t2)]

\* str() of the httpx.HTTPStatusError that response.raise_for_status() raises
HTTPStatusErrorMessage(status, op, id) ==
    <<"Client error '", StatusText(status), " ", ReasonPhrase(status), "' for url '",
      FASTAPI_URL>> \o Endpoint(op, id) \o <<"'\nFor more information check: ",
      "https://developer.mozilla.org/en-US/docs/Web/HTTP/Status/", StatusText(status)>>

\* str() of the httpx.ConnectError of a refused connection
ConnectErrorMessages == { <<"All connection attempts failed">>,
                          <<"[Errno 111] Connection refused">> }

\* TodoMCPServer._make_request, main.py:284-301: the JSON of a success, the
\* exception of httpx otherwise
TodoMCPServer_make_request(http, plan, connectMsg) ==
    IF ~http.connected THEN Raises(connectMsg)
    ELSE IF http.out.status >= 400
         THEN Raises(HTTPStatusErrorMessage(http.out.status, plan.op, plan.id))
         ELSE Returns(http.out.result)

\* make_request, mcp_server.py:16-38
make_request(http, plan, connectMsg) ==
    IF ~http.connected
    THEN Raises(<<"Cannot connect to FastAPI server. Make sure it's running on ",
                  "http://localhost:8001">>)
    ELSE IF http.out.status >= 400
         THEN Raises(<<"HTTP error: ", StatusText(http.out.status), " - ",
                       ErrorBodyText(http.out.status)>>)
         ELSE Returns(http.out.result)

-----------------------------------------------------------------------------
(* Rendering of the store's JSON answers, the same in both adapters *)

\* str(v) of a text value of the JSON: None for null
Str(v) == IF v = Null THEN "None" ELSE v

\* the JSON object of a Todo: every field is a key, a text field may be null
NullKeys(todo) == {f \in {"title", "description"} : todo[f] = Null}

TodoJson(todo) == Obj([f \in DOMAIN todo \ NullKeys(todo) |-> todo[f]], NullKeys(todo))

\* one line of get_todos; the two status glyphs are written done and pending
TodoLine(todo) ==
    <<"ID: ", ToString(todo.id), " | ", todo.title, " | ",
      IF todo.completed THEN "done" ELSE "pending", " | ",
      Str(DictGet(TodoJson(todo), "description", "No description"))>>

\* "\n".join(lines)
RECURSIVE JoinLines(_, _)
JoinLines(todos, i) ==
    IF i > Len(todos) THEN <<>>
    ELSE TodoLine(todos[i]) \o (IF i < Len(todos) THEN <<"\n">> ELSE <<>>)
         \o JoinLines(todos, i + 1)

RenderTodos(todos) == <<"All Todos:\n">> \o JoinLines(todos, 1)

\* str() of the completion percentage: the int 0 of an empty collection, else
\* the float with two decimals at most
PctText(stats) ==
    LET p == stats.completion_percentage
        frac == p % 100
    IN  IF stats.total_todos = 0 THEN <<"0">>
        ELSE <<ToString(p \div 100), ".">> \o
             (IF frac % 10 = 0 THEN <<ToString(frac \div 10)>>
              ELSE <<ToString(frac \div 10), ToString(frac % 10)>>)

RenderStats(stats) ==
    <<"Todo Statistics:\n", "Total Todos: ", ToString(stats.total_todos), "\n",
      "Completed: ", ToString(stats.completed_todos), "\n",
      "Pending: ", ToString(stats.pending_todos), "\n",
      "Completion Rate: ">> \o PctText(stats) \o <<"%">>

RenderCreated(todo) == <<"Created todo: ", Str(todo.title), " (ID: ", ToString(todo.id), ")">>

RenderUpdated(todo) == <<"Updated todo: ", Str(todo.title), " (ID: ", ToString(todo.id), ")">>

RenderDetails(todo) ==
    <<"Todo Details:\n", "ID: ", ToString(todo.id), "\n", "Title: ", Str(todo.title), "\n",
      "Description: ",
      Str(DictGet(TodoJson(todo), "description", "No description")), "\n",
      "Status: ", IF todo.completed THEN "done Completed" ELSE "pending Pending", "\n",
      "Created: ", ToString(todo.created_at), "\n",
      "Updated: ", ToString(todo.updated_at)>>

\* the text a tool makes of the JSON of its request's answer
Render(op, result) ==
    CASE op = "list"   -> RenderTodos(result)
      [] op = "stats"  -> RenderStats(result)
      [] op = "create" -> RenderCreated(result)
      [] op = "update" -> RenderUpdated(result)
      [] op = "delete" -> result.message
      [] op = "get"    -> RenderDetails(result)

-----------------------------------------------------------------------------
(* The tools of TodoMCPServer, main.py:303-392, up to their request *)

\* a tool's arguments without nulls: {k: v for ... if v is not None}
NotNone(args, keys) == Obj([k \in DOMAIN args.vals \cap keys |-> args.vals[k]], {})

\* the filter of _update_todo without "and v is not None"
TodoMCPServer_update_data_with_none(args) ==
    Obj([k \in DOMAIN args.vals \ {"id"} |-> args.vals[k]], args.nulls \ {"id"})

\* update_data of _update_todo, main.py:353
TodoMCPServer_update_data(args) == NotNone(args, Keys(args) \ {"id"})

\* todo_data of _create_todo, main.py:335-339, and of create_todo,
\* mcp_server.py:59-63: the three keys, always
CreateData(args) ==
    Obj([k \in (DOMAIN args.vals \cap {"title", "description", "completed"})
               \cup ({"completed"} \ Keys(args)) |->
            IF k \in DOMAIN args.vals THEN args.vals[k] ELSE FALSE],
        ({"title", "description"} \ DOMAIN args.vals)
            \cup (args.nulls \cap {"completed"}))

\* str(KeyError(key))
KeyErrorMessage(key) == <<"'", key, "'">>

TodoMCPServer_plan(name, args) ==
    CASE name = "get_todos" -> Send("list", 0, NoBody)
      [] name = "get_todo_stats" -> Send("stats", 0, NoBody)
      [] name = "create_todo" ->
            IF "title" \notin Keys(args) THEN Raises(KeyErrorMessage("title"))
            ELSE Send("create", 0, CreateData(args))
      [] name = "update_todo" ->
            IF "id" \notin Keys(args) THEN Raises(KeyErrorMessage("id"))
            ELSE Send("update", args.vals["id"], TodoMCPServer_update_data(args))
      [] name = "delete_todo" ->
            IF "id" \notin Keys(args) THEN Raises(KeyErrorMessage("id"))
            ELSE Send("delete", args.vals["id"], NoBody)
      [] name = "get_todo_by_id" ->
            IF "id" \notin Keys(args) THEN Raises(KeyErrorMessage("id"))
            ELSE Send("get", args.vals["id"], NoBody)
      [] OTHER -> Returns(<<"Unknown tool: ", name>>)

\* a tool of TodoMCPServer from its plan to its end: what it returns or raises
TodoMCPServer_tool(plan, http, connectMsg) ==
    IF plan.kind # "send" THEN plan
    ELSE LET r == TodoMCPServer_make_request(http, plan, connectMsg)
         IN  IF r.kind = "raise" THEN r ELSE Returns(Render(plan.op, r.text))

\* handle_call_tool without its try/except
handle_call_tool_no_try(plan, http, connectMsg) ==
    LET r == TodoMCPServer_tool(plan, http, connectMsg)
    IN  [outcome |-> IF r.kind = "raise" THEN "raise" ELSE "text",
         text |-> IF r.kind = "raise" THEN r.msg ELSE r.text]

\* handle_call_tool, main.py:259-282: the tool's text, or "Error: " and the
\* message of the exception it raised
handle_call_tool(plan, http, connectMsg) ==
    LET r == TodoMCPServer_tool(plan, http, connectMsg)
    IN  [outcome |-> "text",
         text |-> IF r.kind = "raise" THEN <<"Error: ">> \o r.msg ELSE r.text]

-----------------------------------------------------------------------------
(* The tools of mcp_server.py:40-91.  Their id parameter is todo_id; an     *)
(* argument left out takes the parameter's default, None (False for the     *)
(* completed of create_todo).  Dispatch by name, the check of the arguments *)
(* against the signature and what becomes of a raised exception are         *)
(* FastMCP's: a tool ends here by returning its text or by raising.         *)

\* update_data of update_todo, mcp_server.py:70-76
mcp_update_data(args) == NotNone(args, {"title", "description", "completed"})

mcp_plan(name, args) ==
    CASE name = "get_todos" -> Send("list", 0, NoBody)
      [] name = "get_todo_stats" -> Send("stats", 0, NoBody)
      [] name = "create_todo" -> Send("create", 0, CreateData(args))
      [] name = "update_todo" -> Send("update", args.vals["todo_id"], mcp_update_data(args))
      [] name = "delete_todo" -> Send("delete", args.vals["todo_id"], NoBody)
      [] name = "get_todo_by_id" -> Send("get", args.vals["todo_id"], NoBody)

mcp_tool(plan, http, connectMsg) ==
    LET r == make_request(http, plan, connectMsg)
    IN  IF r.kind = "raise" THEN [outcome |-> "raise", text |-> r.msg]
        ELSE [outcome |-> "text", text |-> Render(plan.op, r.text)]

-----------------------------------------------------------------------------
(* Tool invocations *)

ToolNames == {"get_todos", "get_todo_stats", "create_todo", "update_todo", "delete_todo",
              "get_todo_by_id"}

Plan(impl, name, args) ==
    IF impl = "main" THEN TodoMCPServer_plan(name, args) ELSE mcp_plan(name, args)

Finish(impl, plan, http, connectMsg) ==
    IF impl = "main" THEN handle_call_tool(plan, http, connectMsg)
    ELSE mcp_tool(plan, http, connectMsg)

\* the creates, updates and deletes explored through the adapters are capped
WithinToolBudget(op) ==
    op \in {"create", "update", "delete"} =>
        Len(created) + n_updates + Cardinality(deleted) < MaxToolWrites

\* one invocation of a tool, from the call to its result: the request it sends
\* is served by the store within the step
ToolCall(impl, name, args) ==
    LET plan == Plan(impl, name, args)
    IN  IF plan.kind # "send"
        THEN /\ tool' = [impl |-> impl, name |-> name, args |-> args,
                         outcome |-> Finish(impl, plan, [connected |-> FALSE], <<>>).outcome,
                         text |-> Finish(impl, plan, [connected |-> FALSE], <<>>).text,
                         sent |-> FALSE, connected |-> FALSE, status |-> 0, upstream |-> ""]
             /\ UNCHANGED store_vars
        ELSE /\ store_up => WithinBudget(plan.op) /\ WithinToolBudget(plan.op)
             /\ \E t1 \in (IF ReadsClock(plan.op) /\ store_up THEN Readings(clock) ELSE {clock}) :
                \E t2 \in (IF plan.op = "create" /\ store_up THEN Readings(t1) ELSE {t1}) :
                \E connectMsg \in (IF store_up THEN {<<>>} ELSE ConnectErrorMessages) :
                    LET http == Http(todos_db, next_id, clock, store_up, plan, t1, t2)
                        res == Finish(impl, plan, http, connectMsg)
                    IN  /\ tool' = [impl |-> impl, name |-> name, args |-> args,
                                    outcome |-> res.outcome, text |-> res.text,
                                    sent |-> TRUE, connected |-> http.connected,
                                    status |-> IF http.connected THEN http.out.status ELSE 0,
                                    upstream |-> IF http.connected /\ http.out.status >= 400
                                                 THEN ErrorBodyText(http.out.status) ELSE ""]
                        /\ IF http.connected
                           THEN Serve(plan.op, plan.id, plan.body, http.out)
                           ELSE UNCHANGED store_vars

\* invocations explored on TodoMCPServer
MainCalls ==
    { <<"get_todos", NoBody>>,
      <<"get_todo_stats", NoBody>>,
      <<"create_todo", Obj([title |-> "X"], {})>>,
      <<"create_todo", Obj(<<>>, {"title"})>>,
      <<"create_todo", NoBody>>,
      <<"update_todo", Obj([id |-> 1], {"description"})>>,
      <<"update_todo", Obj([id |-> 6, completed |-> TRUE], {"title"})>>,
      <<"delete_todo", Obj([id |-> 6], {})>>,
      <<"delete_todo", NoBody>>,
      <<"get_todo_by_id", Obj([id |-> 6], {})>>,
      <<"frobnicate", NoBody>> }

\* invocations explored on the tools of mcp_server.py
McpCalls ==
    { <<"get_todo_stats", NoBody>>,
      <<"create_todo", Obj([title |-> "X"], {"completed"})>>,
      <<"update_todo", Obj([todo_id |-> 1], {"description"})>>,
      <<"update_todo", Obj([todo_id |-> 6, completed |-> TRUE], {"title"})>>,
      <<"delete_todo", Obj([todo_id |-> 6], {})>>,
      <<"get_todo_by_id", Obj([todo_id |-> 6], {})>> }

\* a tool-calling client invokes TodoMCPServer
MainToolCall ==
    /\ \E c \in MainCalls : ToolCall("main", c[1], c[2])
    /\ UNCHANGED <<store_up, loop_vars>>

\* a tool-calling client invokes a tool of mcp_server.py
McpToolCall ==
    /\ \E c \in McpCalls : ToolCall("fastmcp", c[1], c[2])
    /\ UNCHANGED <<store_up, loop_vars>>

\* the store stops accepting connections, or accepts them again with its
\* state intact
StoreDown ==
    store_up /\ store_up' = FALSE /\ tool' = NoTool /\ UNCHANGED <<store_vars, loop_vars>>

StoreUp ==
    ~store_up /\ store_up' = TRUE /\ tool' = NoTool /\ UNCHANGED <<store_vars, loop_vars>>

NextAdapter ==
    \/ MainToolCall
    \/ McpToolCall
    \/ StoreDown
    \/ StoreUp

\* the adapters are explored from the seeded state whose ten clock readings
\* all fell in one tick
InitAdapter == Init /\ clock = 0

SpecAdapter == InitAdapter /\ [][NextAdapter]_vars

-----------------------------------------------------------------------------
(* The statistics over every sub-collection of the seeded items: deletes of *)
(* every seeded id, down to the empty collection                            *)

AllIds == 1..Len(dummy_todos)

\* DELETE /todos/{id} of a seeded id
DeleteAnyReq ==
    /\ store_up
    /\ \E id \in AllIds : Request("delete", id, NoBody)
    /\ tool' = NoTool
    /\ UNCHANGED <<store_up, loop_vars>>

\* PUT /todos/{id} with {completed: true}
CompleteReq ==
    /\ store_up
    /\ \E id \in ReqIds : Request("update", id, Obj([completed |-> TRUE], {}))
    /\ tool' = NoTool
    /\ UNCHANGED <<store_up, loop_vars>>

NextStats ==
    \/ GetTodoStatsReq
    \/ CompleteReq
    \/ DeleteAnyReq

SpecStats == Init /\ [][NextStats]_vars

-----------------------------------------------------------------------------
(* Properties of the Store Service *)

Ids(db) == {db[i].id : i \in DOMAIN db}

Succeeded(r, op) == r.op = op /\ r.status = 200

\* C1: no two items of the live collection todos_db have the same id, in every
\* state reachable from the seeded state by create, update and delete requests.
C1_IdsUnique ==
    \A i, j \in DOMAIN todos_db : i # j => todos_db[i].id # todos_db[j].id

C1_Witness ==
    /\ Len(created) = MaxCreates
    /\ n_updates > 0
    /\ deleted # {}
    /\ Len(todos_db) >= Len(dummy_todos)

\* C2: the counter is 6 after seeding; a successful create returns the counter's
\* value, which is 1 more than the id the previous create returned (6 for the
\* first) and was never issued before, and moves the counter up by 1; any other
\* request leaves the counter as it was.
C2_CounterStep ==
    IF Succeeded(resp', "create")
    THEN /\ resp'.result.id = next_id
         /\ resp'.result.id =
                IF created = <<>> THEN Len(dummy_todos) + 1 ELSE created[Len(created)] + 1
         /\ resp'.result.id \notin (Ids(todos_db) \cup deleted)
         /\ next_id' = next_id + 1
    ELSE next_id' = next_id

C2_Counter == (next_id = 6) /\ [][C2_CounterStep]_vars

\* a second create, issued after a delete, returned 7
C2_Witness ==
    /\ Succeeded(resp, "create")
    /\ created = <<6, 7>>
    /\ resp.result.id = 7
    /\ deleted # {}

\* C3: a successful update changes, of the item with the request's id, only the
\* fields among title, description and completed that the body carries, and
\* updated_at; its id, created_at and omitted fields, all other items, the order
\* of the collection and the counter stay as they were.
C3_UpdateStep ==
    Succeeded(resp', "update") =>
        LET i == Find(todos_db, resp'.id)
        IN  /\ i > 0
            /\ Len(todos_db') = Len(todos_db)
            /\ \A j \in DOMAIN todos_db : j # i => todos_db'[j] = todos_db[j]
            /\ todos_db'[i].id = todos_db[i].id
            /\ todos_db'[i].created_at = todos_db[i].created_at
            /\ \A f \in {"title", "description", "completed"} \ Keys(resp'.body) :
                   todos_db'[i][f] = todos_db[i][f]
            /\ next_id' = next_id

C3_UpdateFrame == [][C3_UpdateStep]_vars

\* an update carrying only {completed: true} went through on seeded item 1
C3_Witness ==
    /\ Succeeded(resp, "update")
    /\ resp.body = Obj([completed |-> TRUE], {})
    /\ resp.id = 1
    /\ resp.result.completed
    /\ resp.result.title = dummy_todos[1].title
    /\ resp.result.description = dummy_todos[1].description

\* C4: a delete of an id no live item has answers 404 and changes nothing; a
\* delete of a live id removes that item; and from then on every get, update
\* or delete of that id answers 404, whatever requests came in between.
C4_DeleteStep ==
    /\ resp'.op = "delete" /\ resp'.id \notin Ids(todos_db) =>
           resp'.status = 404 /\ todos_db' = todos_db
    /\ resp'.op = "delete" /\ resp'.id \in Ids(todos_db) =>
           /\ resp'.status = 200
           /\ resp'.id \notin Ids(todos_db')
           /\ Len(todos_db') = Len(todos_db) - 1
    /\ resp'.op \in {"get", "update", "delete"} /\ resp'.id \in deleted =>
           resp'.status = 404

C4_DeletePermanent == [][C4_DeleteStep]_vars

\* a get of a created-then-deleted id answered 404, two creates having been served
C4_Witness ==
    /\ resp.op = "get"
    /\ resp.status = 404
    /\ resp.id = 6
    /\ 6 \in deleted
    /\ created = <<6, 7>>

\* C5: the statistics are total = number of live items, completed = number of
\* live items whose flag is true, pending = total - completed, and the
\* percentage completed / total * 100 to the nearest hundredth (0 when total is
\* 0); all four are 0 on the empty collection and 5, 1, 4, 20.00 right after
\* seeding.  Percentages are in hundredths of a percent.
C5_Stats ==
    resp.op = "stats" =>
        LET r == resp.result
            total == Len(todos_db)
            done == Cardinality({i \in DOMAIN todos_db : todos_db[i].completed = TRUE})
        IN  /\ resp.status = 200
            /\ r.total_todos = total
            /\ r.completed_todos = done
            /\ r.pending_todos = total - done
            /\ total > 0 =>
                   /\ 2 * (r.completion_percentage * total - done * 10000) <= total
                   /\ 2 * (done * 10000 - r.completion_percentage * total) <= total
            /\ total = 0 =>
                   /\ r.completion_percentage = 0
                   /\ r.completed_todos = 0
                   /\ r.pending_todos = 0
            /\ (created = <<>> /\ deleted = {} /\ n_updates = 0) =>
                   r = [total_todos |-> 5, completed_todos |-> 1, pending_todos |-> 4,
                        completion_percentage |-> 2000]

\* the statistics of the empty collection, reached by deleting every item
C5_Witness ==
    /\ resp.op = "stats"
    /\ todos_db = <<>>
    /\ deleted = AllIds
    /\ resp.result.total_todos = 0

\* the statistics of a collection whose percentage is not a whole number
C5_WitnessRounded ==
    /\ resp.op = "stats"
    /\ resp.result.total_todos = 3
    /\ resp.result.completion_percentage = 6667

\* C6: a create whose body carries only a title answers an item with
\* description null, completed false and created_at = updated_at.
C6_CreateTitleOnly ==
    (Succeeded(resp, "create") /\ Keys(resp.body) = {"title"}) =>
        /\ resp.result.description = Null
        /\ resp.result.completed = FALSE
        /\ resp.result.created_at = resp.result.updated_at

\* C7: updated_at >= created_at for every item of the collection, seeded,
\* created or updated, the readings of the clock never decreasing.
C7_UpdatedAfterCreated ==
    \A i \in DOMAIN todos_db : todos_db[i].updated_at >= todos_db[i].created_at

\* a seeded item, a created item and an updated item whose two stamps differ
C7_Witness ==
    /\ n_updates > 0
    /\ \E i \in DOMAIN todos_db :
           todos_db[i].id <= Len(dummy_todos) /\ todos_db[i].updated_at > todos_db[i].created_at
    /\ \E i \in DOMAIN todos_db :
           todos_db[i].id > Len(dummy_todos) /\ todos_db[i].updated_at > todos_db[i].created_at
    /\ Succeeded(resp, "update")
    /\ resp.result.updated_at > resp.result.created_at

-----------------------------------------------------------------------------
(* Properties of the adapters *)

Impls == {"main", "fastmcp"}

InText(piece, text) == \E i \in DOMAIN text : text[i] = piece

IdKey(impl) == IF impl = "main" THEN "id" ELSE "todo_id"

\* C8: update_todo invoked with an argument that is null (or absent) leaves
\* that field of the stored item as it was, in both adapters: the payload
\* forwarded to PUT /todos/{id} carries exactly the non-null arguments other
\* than the id.
C8_NullArgStep ==
    (tool'.impl \in Impls /\ tool'.name = "update_todo"
        /\ IdKey(tool'.impl) \in DOMAIN tool'.args.vals) =>
        LET args == tool'.args
            id == args.vals[IdKey(tool'.impl)]
        IN  /\ \A f \in {"title", "description", "completed"} \ DOMAIN args.vals :
                \A i \in DOMAIN todos_db :
                    todos_db[i].id = id =>
                        i \in DOMAIN todos_db' /\ todos_db'[i][f] = todos_db[i][f]
            /\ tool'.connected =>
                   /\ resp'.op = "update"
                   /\ resp'.id = id
                   /\ resp'.body.nulls = {}
                   /\ DOMAIN resp'.body.vals = DOMAIN args.vals \ {IdKey(tool'.impl)}

C8_NullArgKeepsField == [][C8_NullArgStep]_vars

\* update_todo with {id: 1, description: null} went through and the item still
\* has its seeded description
C8_Witness ==
    /\ tool.impl = "main"
    /\ tool.name = "update_todo"
    /\ "description" \in tool.args.nulls
    /\ tool.status = 200
    /\ resp.id = 1
    /\ resp.result.description = dummy_todos[1].description
    /\ \E i \in DOMAIN todos_db :
           todos_db[i].id = 1 /\ todos_db[i].description = dummy_todos[1].description

C8_WitnessMcp ==
    /\ tool.impl = "fastmcp"
    /\ tool.name = "update_todo"
    /\ "description" \in tool.args.nulls
    /\ tool.status = 200
    /\ resp.result.description = dummy_todos[1].description

C9_WitnessUnknown ==
    tool.impl = "main" /\ tool.name = "frobnicate" /\ tool.text = <<"Unknown tool: ", "frobnicate">>

C9_WitnessNotFound == tool.impl = "main" /\ tool.status = 404 /\ tool.outcome = "text"

C9_WitnessInvalid == tool.impl = "main" /\ tool.status = 422 /\ tool.outcome = "text"

C9_WitnessKeyError ==
    tool.impl = "main" /\ tool.name = "delete_todo" /\ ~tool.sent /\ tool.outcome = "text"

C9_WitnessSuccess ==
    tool.impl = "main" /\ tool.name = "create_todo" /\ tool.status = 200 /\ tool.outcome = "text"

\* C10: in both adapters, the error text of a non-success answer of the store
\* carries the status code and the store's response body, and the error text
\* of a failed connection names http://localhost:8001.
C10_ErrorText ==
    tool.impl \in Impls =>
        /\ tool.status >= 400 =>
               /\ InText(StatusText(tool.status), tool.text)
               /\ InText(tool.upstream, tool.text)
        /\ (tool.sent /\ ~tool.connected) => InText(FASTAPI_URL, tool.text)

\* the same of the tools of mcp_server.py alone
C10_McpErrorText ==
    tool.impl = "fastmcp" =>
        /\ tool.status >= 400 =>
               /\ InText(StatusText(tool.status), tool.text)
               /\ InText(tool.upstream, tool.text)
        /\ (tool.sent /\ ~tool.connected) => InText(FASTAPI_URL, tool.text)

C10_McpWitness == tool.impl = "fastmcp" /\ tool.status = 404

\* what the error text of TodoMCPServer does carry: the status code of a
\* non-success answer, without the body
C10_MainErrorText ==
    tool.impl = "main" =>
        /\ tool.status >= 400 =>
               /\ InText(StatusText(tool.status), tool.text)
               /\ ~InText(tool.upstream, tool.text)
        /\ (tool.sent /\ ~tool.connected) => ~InText(FASTAPI_URL, tool.text)

CountPiece(piece, text) == Cardinality({i \in DOMAIN text : text[i] = piece})

\* C11: get_todos and get_todo_by_id, in both adapters, render the placeholder
\* "No description" for every item whose description is null in the store and
\* the stored description for every other item.
C11_NoDescription ==
    tool.impl \in Impls =>
        /\ (tool.name = "get_todo_by_id" /\ tool.status = 200) =>
               InText(IF resp.result.description = Null THEN "No description"
                      ELSE resp.result.description, tool.text)
        /\ (tool.name = "get_todos" /\ tool.status = 200) =>
               /\ CountPiece("No description", tool.text) =
                      Cardinality({i \in DOMAIN todos_db : todos_db[i].description = Null})
               /\ \A i \in DOMAIN todos_db :
                      todos_db[i].description # Null =>
                          InText(todos_db[i].description, tool.text)

\* what the two tools do render: the stored description, and the text None
\* for a description that is null, never the placeholder
C11_RendersNone ==
    tool.impl \in Impls =>
        /\ (tool.name = "get_todo_by_id" /\ tool.status = 200) =>
               InText(Str(resp.result.description), tool.text)
        /\ (tool.name \in {"get_todos", "get_todo_by_id"} /\ tool.status = 200) =>
               ~InText("No description", tool.text)
        /\ (tool.name = "get_todos" /\ tool.status = 200) =>
               \A i \in DOMAIN todos_db : InText(Str(todos_db[i].description), tool.text)

C11_WitnessNone ==
    /\ tool.impl = "fastmcp"
    /\ tool.name = "get_todo_by_id"
    /\ tool.status = 200
    /\ resp.result.description = Null
    /\ InText("None", tool.text)

-----------------------------------------------------------------------------
(* The store's event loop: uvicorn.run (main.py:423) serves the app on one    *)
(* asyncio loop, each request is a task of it, and the loop leaves the task   *)
(* it executes only where that task suspends or returns.  The handlers are    *)
(* taken statement by statement.                                              *)

MaxTasks == 3

\* create_todo with "await asyncio.sleep(0)" before todos_db.append(new_todo)
Awaits_before_append(op) == IF op = "create" THEN {"append"} ELSE {}

\* the statements of a handler before which it suspends: the handlers of
\* main.py:83-146 are "async def" and hold no await, async for or async with
Awaits(op) == {}

client_vars == <<resp, deleted, created, n_updates, store_up, tool>>

NoTodo == Todo(0, "", "", FALSE, 0, 0)

\* the first statement of a handler
FirstPc(op) ==
    CASE op = "create" -> "build"
      [] op \in {"update", "delete"} -> "scan"
      [] op \in {"get", "list", "stats"} -> "read"

\* a request accepted by the server: the task that will call its handler, with
\* the handler's locals (i, todo / new_todo / deleted_todo), the readings of
\* datetime.now() it made and its response
NewTask(op, id, body) ==
    [op |-> op, id |-> id, body |-> body, pc |-> FirstPc(op), i |-> 0, todo |-> NoTodo,
     t1 |-> 0, t2 |-> 0, status |-> 0, result |-> <<>>]

\* ids of the requests explored: a seeded item and the id the first create issues
LoopIds == {1, Len(dummy_todos) + 1}

LoopRequests ==
    {NewTask("create", 0, b) : b \in CreateBodies}
        \cup {NewTask("update", id, Obj([completed |-> TRUE], {})) : id \in LoopIds}
        \cup {NewTask(op, id, NoBody) : op \in {"delete", "get"}, id \in LoopIds}
        \cup {NewTask(op, 0, NoBody) : op \in {"list", "stats"}}

\* the running task has executed a statement and is now task2: the loop keeps
\* it unless it returned, raised or stands before a suspension point
Advance(task2) ==
    /\ tasks' = [tasks EXCEPT ![running] = task2]
    /\ running' = IF task2.pc = "done" \/ task2.pc \in Awaits(task2.op) THEN 0 ELSE running

\* return, or raise HTTPException: the task ends with this response
Respond(task, status, result) ==
    [task EXCEPT !.pc = "done", !.status = status, !.result = result]

\* a request arrives and waits for the loop
Submit ==
    /\ Len(tasks) < MaxTasks
    /\ \E r \in LoopRequests : tasks' = Append(tasks, r)
    /\ UNCHANGED <<todos_db, next_id, clock, running, client_vars>>

\* the idle loop takes up any task that has not ended
Dispatch ==
    /\ running = 0
    /\ \E t \in DOMAIN tasks : tasks[t].pc # "done" /\ running' = t
    /\ UNCHANGED <<todos_db, next_id, clock, tasks, client_vars>>

\* one statement of create_todo, main.py:110-124
CreateStep ==
    /\ running # 0
    /\ tasks[running].op = "create"
    /\ LET task == tasks[running]
       IN  \/ /\ task.pc = "build"
              /\ \E t1 \in Readings(clock) : \E t2 \in Readings(t1) :
                     /\ Advance([task EXCEPT !.pc = "append", !.t1 = t1, !.t2 = t2,
                                     !.todo = Todo(next_id, task.body.vals["title"],
                                                   DictGet(task.body, "description", Null),
                                                   DictGet(task.body, "completed", FALSE),
                                                   t1, t2)])
                     /\ clock' = t2
              /\ UNCHANGED <<todos_db, next_id>>
           \/ /\ task.pc = "append"
              /\ todos_db' = Append(todos_db, task.todo)
              /\ Advance([task EXCEPT !.pc = "incr"])
              /\ UNCHANGED <<next_id, clock>>
           \/ /\ task.pc = "incr"
              /\ next_id' = next_id + 1
              /\ Advance([task EXCEPT !.pc = "return"])
              /\ UNCHANGED <<todos_db, clock>>
           \/ /\ task.pc = "return"
              /\ Advance(Respond(task, 200, task.todo))
              /\ UNCHANGED <<todos_db, next_id, clock>>
    /\ UNCHANGED client_vars

\* "for i, todo in enumerate(todos_db): if todo.id == todo_id" of update_todo
\* and delete_todo: on to the loop body with i and todo bound, or past the loop
\* to the raise
Scan(task, body_pc) ==
    LET i == Find(todos_db, task.id)
    IN  IF i = 0 THEN Respond(task, 404, NotFoundDetail)
        ELSE [task EXCEPT !.pc = body_pc, !.i = i, !.todo = todos_db[i]]

\* one statement of update_todo, main.py:126-137; todo is the object the list
\* holds at i, so setattr and the stamp show in the list at once
UpdateStep ==
    /\ running # 0
    /\ tasks[running].op = "update"
    /\ LET task == tasks[running]
       IN  \/ /\ task.pc = "scan"
              /\ Advance(Scan(task, "setattr"))
              /\ UNCHANGED <<todos_db, next_id, clock>>
           \/ /\ task.pc = "setattr"
              /\ todos_db' = [todos_db EXCEPT ![task.i] = SetFields(task.todo, task.body)]
              /\ Advance([task EXCEPT !.pc = "stamp",
                                      !.todo = SetFields(task.todo, task.body)])
              /\ UNCHANGED <<next_id, clock>>
           \/ /\ task.pc = "stamp"
              /\ \E t \in Readings(clock) :
                     /\ todos_db' = [todos_db EXCEPT
                                         ![task.i] = [task.todo EXCEPT !.updated_at = t]]
                     /\ Advance([task EXCEPT !.pc = "return", !.t1 = t, !.t2 = t,
                                             !.todo = [task.todo EXCEPT !.updated_at = t]])
                     /\ clock' = t
              /\ UNCHANGED next_id
           \/ /\ task.pc = "return"
              /\ todos_db' = [todos_db EXCEPT ![task.i] = task.todo]
              /\ Advance(Respond(task, 200, task.todo))
              /\ UNCHANGED <<next_id, clock>>
    /\ UNCHANGED client_vars

\* one statement of delete_todo, main.py:139-146
DeleteStep ==
    /\ running # 0
    /\ tasks[running].op = "delete"
    /\ LET task == tasks[running]
       IN  \/ /\ task.pc = "scan"
              /\ Advance(Scan(task, "pop"))
              /\ UNCHANGED todos_db
           \/ /\ task.pc = "pop"
              /\ todos_db' = Pop(todos_db, task.i)
              /\ Advance([task EXCEPT !.pc = "return", !.todo = todos_db[task.i]])
           \/ /\ task.pc = "return"
              /\ Advance(Respond(task, 200, [message |-> DeletedMessage(task.todo.title)]))
              /\ UNCHANGED todos_db
    /\ UNCHANGED <<next_id, clock, client_vars>>

\* get_todos, get_todo_stats and get_todo, main.py:83-108: they read the
\* collection and return
ReadStep ==
    /\ running # 0
    /\ tasks[running].op \in {"get", "list", "stats"}
    /\ LET task == tasks[running]
           out == Handle(todos_db, next_id, clock, task.op, task.id, task.body, clock, clock)
       IN  Advance(Respond(task, out.status, out.result))
    /\ UNCHANGED <<todos_db, next_id, clock, client_vars>>

NextLoop == Submit \/ Dispatch \/ CreateStep \/ UpdateStep \/ DeleteStep \/ ReadStep

InitLoop == Init /\ clock = 0

SpecLoop == InitLoop /\ [][NextLoop]_vars

\* the collection and counter InitLoop starts from
Seed0 == Seeded([k \in 1..(2 * Len(dummy_todos)) |-> 0])

\* the tasks that have ended
Done == {t \in DOMAIN tasks : tasks[t].pc = "done"}

\* no task stands inside its handler
Quiescent == \A t \in DOMAIN tasks : tasks[t].pc \in {FirstPc(tasks[t].op), "done"}

\* the orders in which the tasks of S can be taken one after the other
Orders(S) ==
    {o \in [1..Cardinality(S) -> S] : \A a, b \in DOMAIN o : a # b => o[a] # o[b]}

\* the requests of the tasks o[k], o[k+1], ... served one whole handler after
\* the other from st, each with the readings of datetime.now() its task made;
\* ok tells whether every response is the one its task gave
RECURSIVE Replay(_, _, _)
Replay(st, o, k) ==
    IF k > Cardinality(DOMAIN o) THEN st
    ELSE LET task == tasks[o[k]]
             out == Handle(st.db, st.next_id, st.clock, task.op, task.id, task.body,
                           task.t1, task.t2)
         IN  Replay([db |-> out.db, next_id |-> out.next_id, clock |-> out.clock,
                     ok |-> /\ st.ok
                            /\ out.status = task.status
                            /\ out.result = task.result],
                    o, k + 1)

DoneCreates == {t \in Done : tasks[t].op = "create"}

\* C12: between its first statement and its return a handler is the only one
\* running; the creates that ended returned pairwise distinct ids; and whenever
\* no task stands inside a handler, every ended create accounts for exactly one
\* item (in the collection, or removed by a delete that succeeded) and the
\* collection, the counter and every response are those of the ended requests
\* served one after the other in some order.
C12_Serialized ==
    /\ \A t \in DOMAIN tasks :
           tasks[t].pc \notin {FirstPc(tasks[t].op), "done"} => running = t
    /\ \A a, b \in DoneCreates : a # b => tasks[a].result.id # tasks[b].result.id
    /\ Quiescent =>
           /\ \A c \in DoneCreates :
                  Cardinality({i \in DOMAIN todos_db : todos_db[i].id = tasks[c].result.id})
                    + Cardinality({d \in Done : /\ tasks[d].op = "delete"
                                                /\ tasks[d].status = 200
                                                /\ tasks[d].id = tasks[c].result.id}) = 1
           /\ Len(todos_db) = Len(Seed0.db) + Cardinality(DoneCreates)
                  - Cardinality({d \in Done : tasks[d].op = "delete" /\ tasks[d].status = 200})
           /\ \E o \in Orders(Done) :
                  LET s == Replay([db |-> Seed0.db, next_id |-> Seed0.next_id,
                                   clock |-> 0, ok |-> TRUE], o, 1)
                  IN  s.ok /\ s.db = todos_db /\ s.next_id = next_id

\* three requests were waiting together, the loop served the later create
\* first, and a delete removed what a create had added
C12_Witness ==
    /\ Quiescent
    /\ Cardinality(Done) = MaxTasks
    /\ \E a, b \in DoneCreates : a < b /\ tasks[a].result.id > tasks[b].result.id
    /\ \E d \in Done : tasks[d].op = "delete" /\ tasks[d].status = 200

-----------------------------------------------------------------------------
(* Requests that must leave the store alone *)

\* C13: a get, update or delete of an id no live item has answers 404 and
\* leaves the collection (every field of every item, and their order) and the
\* counter exactly as they were; so does every list, get and stats request.
C13_ReadOnlyStep ==
    /\ (resp'.op \in {"get", "update", "delete"} /\ resp'.id \notin Ids(todos_db)) =>
           resp'.status = 404
    /\ (resp'.op \in {"get", "update", "delete"} /\ resp'.status = 404) =>
           todos_db' = todos_db /\ next_id' = next_id
    /\ resp'.op \in {"list", "get", "stats"} =>
           todos_db' = todos_db /\ next_id' = next_id

C13_NotFoundChangesNothing == [][C13_ReadOnlyStep]_vars

\* an update of a deleted id answered 404, after creates and an update that
\* went through
C13_Witness ==
    /\ resp.op = "update"
    /\ resp.status = 404
    /\ resp.id \in deleted
    /\ n_updates > 0
    /\ created # <<>>

====
